---- MODULE Spec2Model ----
(***************************************************************************)
(* Model of wcag-compliance-reviewer/scripts/check_wcag.py: the WCAG       *)
(* static checker (Issue, WCAGChecker, format_output, main).               *)
(*                                                                         *)
(* Text is modelled at the level of lexical fragments.  A line is a        *)
(* sequence of fragments; a fragment is a record                           *)
(*   s : the literal text the checker's patterns search for                *)
(*   q : the delimiter that follows an attribute's "=" sign                *)
(*       ("dq" double quote, "sq" single quote, "br" opening brace, "")    *)
(*   n : the decimal integer that follows, or -1 when no digit follows     *)
(*   w : the word that follows (attribute value), or ""                    *)
(*   h : the hexadecimal digits that follow "#" (each 0..15)               *)
(* Python's `pat in line` is Has(pat, line): some fragment's text contains *)
(* pat.  A file's content is one flat fragment sequence in which NL is the *)
(* newline; check_file's split('\n') is Split.                             *)
(***************************************************************************)
EXTENDS Integers, Sequences, FiniteSets, TLC

\* ------------------------------------------------------------------------
\* Bounds of the model
\* ------------------------------------------------------------------------
MaxArgs == 3

\* most lines of a file whose content is drawn
MaxHtmlLines == 2

MaxCssLines == 1

\* ------------------------------------------------------------------------
\* Fragments
\* ------------------------------------------------------------------------
Lit(s) == [s |-> s, q |-> "", n |-> 0 - 1, w |-> "", h |-> <<>>]

Attr(s, q, w) == [s |-> s, q |-> q, n |-> 0 - 1, w |-> w, h |-> <<>>]

Num(s, q, n) == [s |-> s, q |-> q, n |-> n, w |-> "", h |-> <<>>]

Hex(s, h) == [s |-> s, q |-> "", n |-> 0 - 1, w |-> "", h |-> h]

NL == Lit("\n")

SP == Lit(" ")

\* str.lower() on the literal texts of the vocabulary
LowerS(s) ==
  CASE s = "<IMG" -> "<img"
    [] s = "<HTML" -> "<html"
    [] s = "<DIV" -> "<div"
    [] s = "ALT=" -> "alt="
    [] s = "LANG=" -> "lang="
    [] s = "onClick=" -> "onclick="
    [] s = "onKeyDown=" -> "onkeydown="
    [] s = "tabIndex=" -> "tabindex="
    [] s = "autoFocus" -> "autofocus"
    [] s = "htmlFor=" -> "htmlfor="
    [] s = "</BUTTON>" -> "</button>"
    [] s = "COLOR:" -> "color:"
    [] OTHER -> s

LowerFrag(t) == [t EXCEPT !.s = LowerS(@), !.w = LowerS(@)]

\* str.lower() of a line, mutated: the line is matched as written
LowerOmitted(line) == line

\* str.lower() of a line
Lower(line) == [k \in 1..Len(line) |-> LowerFrag(line[k])]

\* proper substrings among the vocabulary: <<pat, s>> means pat occurs in s
Within ==
  { <<"color:", "background-color:">>, <<"color:", "border-color:">>,
    <<"lang=", "hreflang=">>, <<"alt=", "data-alt=">>,
    <<">", "/>">>, <<">", "</button>">>, <<">", "</BUTTON>">>,
    <<">", "</div>">>, <<">", "</label>">>, <<">", "</html>">> }

Contains(s, pat) == s = pat \/ <<pat, s>> \in Within

\* Python `pat in line`
Has(pat, line) == \E k \in 1..Len(line) : Contains(line[k].s, pat)

IsSpace(t) == t.s \in {" ", "\t"}

\* str.strip(): drop leading and trailing whitespace
RECURSIVE LStrip(_)
LStrip(line) ==
  IF line # <<>> /\ IsSpace(Head(line)) THEN LStrip(Tail(line)) ELSE line

RECURSIVE RStrip(_)
RStrip(line) ==
  IF line # <<>> /\ IsSpace(line[Len(line)])
  THEN RStrip(SubSeq(line, 1, Len(line) - 1))
  ELSE line

Strip(line) == RStrip(LStrip(line))

\* content.split('\n'): always at least one (possibly empty) line
RECURSIVE SplitFrom(_, _, _)
SplitFrom(content, k, cur) ==
  IF k > Len(content) THEN << cur >>
  ELSE IF content[k] = NL THEN << cur >> \o SplitFrom(content, k + 1, <<>>)
  ELSE SplitFrom(content, k + 1, Append(cur, content[k]))

Split(content) == SplitFrom(content, 1, <<>>)

\* re.search scans from the left: the least of the candidate positions S,
\* or 0 when there is none
First(S) == IF S = {} THEN 0 ELSE CHOOSE j \in S : \A m \in S : j <= m

\* ------------------------------------------------------------------------
\* Issue (dataclass, fields in declaration order)
\* ------------------------------------------------------------------------
IssueFields ==
  << "file", "line", "column", "severity", "rule", "message", "code_snippet" >>

Issue(file, line, column, severity, rule, message, code_snippet) ==
  << file, line, column, severity, rule, message, code_snippet >>

FieldIndex(name) == CHOOSE k \in 1..Len(IssueFields) : IssueFields[k] = name

Get(issue, name) == issue[FieldIndex(name)]

\* WCAGChecker._add_issue, mutated: the issue is appended twice
AddIssueTwice(issues, file, line_num, severity, rule, message, snippet) ==
  issues \o << Issue(file, line_num, 0, severity, rule, message, Strip(snippet)),
               Issue(file, line_num, 0, severity, rule, message, Strip(snippet)) >>

\* WCAGChecker._add_issue
AddIssue(issues, file, line_num, severity, rule, message, snippet) ==
  Append(issues,
         Issue(file, line_num, 0, severity, rule, message, Strip(snippet)))

\* ------------------------------------------------------------------------
\* WCAGChecker._check_html, the body of the loop for line number i
\* ------------------------------------------------------------------------
\* re.search(r'<button[^>]*>(.*?)</button>', line, re.IGNORECASE).
\* Every fragment of the vocabulary that holds ">" holds it as its last
\* character, so the match starts at the first "<button", [^>]* stops at the
\* first fragment holding ">", and the lazy group ends at the next "</button>".
ButtonSearch(line) ==
  LET IsOpen(t) == Contains(LowerS(t.s), "<button")
      IsGt(t) == Contains(t.s, ">")
      IsClose(t) == LowerS(t.s) = "</button>"
      b == First({ p \in 1..Len(line) : IsOpen(line[p]) })
      j == IF b = 0 THEN 0 ELSE First({ p \in (b + 1)..Len(line) : IsGt(line[p]) })
      k == IF j = 0 THEN 0 ELSE First({ p \in (j + 1)..Len(line) : IsClose(line[p]) })
  IN  IF k = 0 THEN [matched |-> FALSE, group |-> <<>>]
      ELSE [matched |-> TRUE, group |-> SubSeq(line, j + 1, k - 1)]

\* re.search(r'tabindex=["\']?(\d+)', line_lower): the captured integer of
\* the first match, or -1 when there is no match
HtmlTabindex(line_lower) ==
  LET M(t) == Contains(t.s, "tabindex=") /\ t.q \in {"", "dq", "sq"} /\ t.n >= 0
      k == First({ p \in 1..Len(line_lower) : M(line_lower[p]) })
  IN  IF k = 0 THEN 0 - 1 ELSE line_lower[k].n

CheckHtmlLine(issues, lines, i, filepath) ==
  LET line == lines[i]
      line_lower == Lower(line)
      s1 == IF Has("<img", line_lower) /\ ~Has("alt=", line_lower)
            THEN AddIssue(issues, filepath, i, "error", "img-alt",
                          "Image missing alt attribute (WCAG 1.1.1)", line)
            ELSE issues
      content == ButtonSearch(line)
      s2 == IF Has("<button", line_lower) /\ Has(">", line)
               /\ content.matched /\ Strip(content.group) = <<>>
               /\ ~Has("aria-label=", line_lower)
            THEN AddIssue(s1, filepath, i, "error", "button-name",
                          "Button has no accessible name (WCAG 4.1.2)", line)
            ELSE s1
      s3 == IF (i = 1 \/ Has("<html", line_lower))
               /\ Has("<html", line_lower) /\ ~Has("lang=", line_lower)
            THEN AddIssue(s2, filepath, i, "error", "html-lang",
                          "HTML element missing lang attribute (WCAG 3.1.1)", line)
            ELSE s2
      s4 == IF Has("onclick=", line_lower)
               /\ (Has("<div", line_lower) \/ Has("<span", line_lower))
               /\ ~Has("role=", line_lower) /\ ~Has("tabindex=", line_lower)
            THEN AddIssue(s3, filepath, i, "error", "click-events-have-key-events",
                          "Click handler on non-interactive element without role/tabindex (WCAG 2.1.1)",
                          line)
            ELSE s3
      s5 == IF HtmlTabindex(line_lower) > 0
            THEN AddIssue(s4, filepath, i, "warning", "no-positive-tabindex",
                          "Positive tabindex values can cause focus order issues", line)
            ELSE s4
  IN  s5

\* ------------------------------------------------------------------------
\* WCAGChecker._check_react, the body of the loop for line number i
\* ------------------------------------------------------------------------
\* 'role="button"' in line or "role='button'" in line
HasRoleButton(line) ==
  \E k \in 1..Len(line) :
     /\ Contains(line[k].s, "role=")
     /\ line[k].q \in {"dq", "sq"}
     /\ line[k].w = "button"

\* re.search(r'aria-expanded=["\']?(true|false|{)', line) is not None
AriaExpandedMatch(line) ==
  \E k \in 1..Len(line) :
     /\ Contains(line[k].s, "aria-expanded=")
     /\ \/ line[k].q = "br"
        \/ line[k].q \in {"", "dq", "sq"} /\ line[k].w \in {"true", "false"}

\* re.search(r'tabIndex={?(\d+)}?', line): the captured integer of the first
\* match, or -1 when there is no match
ReactTabIndex(line) ==
  LET M(t) == Contains(t.s, "tabIndex=") /\ t.q \in {"", "br"} /\ t.n >= 0
      k == First({ p \in 1..Len(line) : M(line[p]) })
  IN  IF k = 0 THEN 0 - 1 ELSE line[k].n

CheckReactLine(issues, lines, i, filepath) ==
  LET line == lines[i]
      line_lower == Lower(line)
      s1 == IF Has("<img", line) /\ ~Has("alt=", line)
               /\ ~(\E k \in 1..Len(line) :
                       Contains(line[k].s, "alt=") /\ line[k].q = "br")
            THEN AddIssue(issues, filepath, i, "error", "img-alt",
                          "Image missing alt attribute (WCAG 1.1.1)", line)
            ELSE issues
      s2 == IF (Has("onClick=", line) \/ Has("onclick=", line_lower))
               /\ (Has("<div", line) \/ Has("<span", line)) /\ ~Has("role=", line)
               /\ ~Has("tabIndex=", line) /\ ~Has("tabindex=", line_lower)
            THEN AddIssue(s1, filepath, i, "error", "click-events-have-key-events",
                          "onClick on non-interactive element needs role=button and onKeyDown (WCAG 2.1.1)",
                          line)
            ELSE s1
      s3 == IF HasRoleButton(line)
               /\ ~Has("onKeyDown=", line) /\ ~Has("onkeydown=", line_lower)
            THEN AddIssue(s2, filepath, i, "warning", "interactive-supports-focus",
                          "Element with role=button should have onKeyDown handler", line)
            ELSE s2
      s4 == IF Has("aria-expanded=", line) /\ ~AriaExpandedMatch(line)
            THEN AddIssue(s3, filepath, i, "error", "aria-expanded-invalid",
                          "aria-expanded must be true or false or boolean expression", line)
            ELSE s3
      s5 == IF Has("<label", line) /\ ~Has("htmlFor=", line) /\ Has(">", line)
               /\ ~Has("<input", line)
            THEN AddIssue(s4, filepath, i, "warning", "label-has-associated-control",
                          "Label should have htmlFor attribute or wrap an input", line)
            ELSE s4
      s6 == IF Has("autoFocus", line) \/ Has("autofocus", line_lower)
            THEN AddIssue(s5, filepath, i, "warning", "no-autofocus",
                          "autoFocus can be disruptive for keyboard and screen reader users",
                          line)
            ELSE s5
      s7 == IF ReactTabIndex(line) > 0
            THEN AddIssue(s6, filepath, i, "warning", "no-positive-tabindex",
                          "Positive tabIndex values can cause focus order issues", line)
            ELSE s6
  IN  s7

\* ------------------------------------------------------------------------
\* WCAGChecker._similar_lightness
\* ------------------------------------------------------------------------
\* Python slice hex_color[a:b]
Slice(seq, a, b) ==
  SubSeq(seq, a + 1, IF b < Len(seq) THEN b ELSE Len(seq))

\* int(digits, 16); -1 stands for the ValueError int('', 16) raises
RECURSIVE Int16(_)
Int16(ds) ==
  IF ds = <<>> THEN 0 - 1
  ELSE IF Len(ds) = 1 THEN ds[1]
  ELSE 16 * Int16(SubSeq(ds, 1, Len(ds) - 1)) + ds[Len(ds)]

\* hex_to_lightness; -1 stands for a raised ValueError
HexToLightness(hex_color) ==
  LET hc == IF Len(hex_color) = 3
            THEN << hex_color[1], hex_color[1], hex_color[2], hex_color[2],
                    hex_color[3], hex_color[3] >>
            ELSE hex_color
      r == Int16(Slice(hc, 0, 2))
      g == Int16(Slice(hc, 2, 4))
      b == Int16(Slice(hc, 4, 6))
  IN  IF r < 0 \/ g < 0 \/ b < 0 THEN 0 - 1 ELSE (r + g + b) \div 3

\* _similar_lightness raises instead of returning
SimilarLightnessRaises(color1, color2) ==
  HexToLightness(color1) < 0 \/ HexToLightness(color2) < 0

SimilarLightness(color1, color2) ==
  LET l1 == HexToLightness(color1)
      l2 == HexToLightness(color2)
  IN  (l1 > 180 /\ l2 > 180) \/ (l1 < 75 /\ l2 < 75)

\* ------------------------------------------------------------------------
\* WCAGChecker._check_css, the body of the loop for line number i
\* ------------------------------------------------------------------------
\* the first fragment matched by  <prop>\s*#([0-9a-f]{3,6})  with prop one
\* of props, as [matched, group]; the group is at most six digits long
HexSearch(line_lower, props) ==
  LET M(t) == (\E p \in props : Contains(t.s, p)) /\ Len(t.h) >= 3
      k == First({ p \in 1..Len(line_lower) : M(line_lower[p]) })
  IN  IF k = 0 THEN [matched |-> FALSE, group |-> <<>>]
      ELSE [matched |-> TRUE, group |-> Slice(line_lower[k].h, 0, 6)]

ColorMatch(line_lower) == HexSearch(line_lower, {"color:"})

BgMatch(line_lower) == HexSearch(line_lower, {"background:", "background-color:"})

\* the focus-visible check of the line
CheckCssOutline(issues, lines, i, filepath) ==
  LET line == lines[i]
      line_lower == Lower(Strip(line))
  IN  IF Has("outline:", line_lower) /\ Has("none", line_lower)
         /\ (Has(":focus", line_lower)
             \/ (i > 1 /\ Has(":focus", Lower(lines[i - 1]))))
      THEN AddIssue(issues, filepath, i, "warning", "focus-visible",
                    "Removing outline on :focus requires alternative visible focus indicator (WCAG 2.4.7)",
                    line)
      ELSE issues

\* the line makes _similar_lightness raise ValueError
CssLineRaises(lines, i) ==
  LET line_lower == Lower(Strip(lines[i]))
      color_match == ColorMatch(line_lower)
      bg_match == BgMatch(line_lower)
  IN  /\ color_match.matched
      /\ bg_match.matched
      /\ SimilarLightnessRaises(color_match.group, bg_match.group)

CheckCssLine(issues, lines, i, filepath) ==
  LET line == lines[i]
      line_lower == Lower(Strip(line))
      s1 == CheckCssOutline(issues, lines, i, filepath)
      color_match == ColorMatch(line_lower)
      bg_match == BgMatch(line_lower)
  IN  IF color_match.matched /\ bg_match.matched
         /\ SimilarLightness(color_match.group, bg_match.group)
      THEN AddIssue(s1, filepath, i, "warning", "color-contrast",
                    "Potential color contrast issue - verify 4.5:1 ratio for text (WCAG 1.4.3)",
                    line)
      ELSE s1

\* ------------------------------------------------------------------------
\* format_output
\* ------------------------------------------------------------------------
\* dataclasses.asdict
AsDict(issue) ==
  [name \in { IssueFields[k] : k \in 1..Len(IssueFields) } |-> Get(issue, name)]

IsError(issue) == Get(issue, "severity") = "error"

IsWarning(issue) == Get(issue, "severity") = "warning"

\* format_output(issues, 'json'), mutated: only the errors are serialised
FormatJsonErrorsOnly(issues) ==
  LET errs == SelectSeq(issues, IsError)
  IN  [k \in 1..Len(errs) |-> AsDict(errs[k])]

\* format_output(issues, 'json'): json.dumps([asdict(issue) ...])
FormatJson(issues) == [k \in 1..Len(issues) |-> AsDict(issues[k])]

\* keys of issues_by_file, mutated: `issue.file not in issues_by_file` is
\* not tested, every issue opens a block
RECURSIVE FilesInOrderUnchecked(_, _)
FilesInOrderUnchecked(issues, seen) ==
  IF issues = <<>> THEN seen
  ELSE FilesInOrderUnchecked(Tail(issues),
                             Append(seen, Get(Head(issues), "file")))

\* keys of issues_by_file in insertion order
RECURSIVE FilesInOrder(_, _)
FilesInOrder(issues, seen) ==
  IF issues = <<>> THEN seen
  ELSE LET f == Get(Head(issues), "file")
       IN  IF \E k \in 1..Len(seen) : seen[k] = f
           THEN FilesInOrder(Tail(issues), seen)
           ELSE FilesInOrder(Tail(issues), Append(seen, f))

\* the output lines of one issue
IssueBlock(issue) ==
  << << "issue", IF Get(issue, "severity") = "error" THEN "error-icon" ELSE "warning-icon",
        Get(issue, "line"), Get(issue, "message") >>,
     << "rule", Get(issue, "rule") >>,
     << "code", Get(issue, "code_snippet") >>,
     << "" >> >>

RECURSIVE IssueBlocks(_)
IssueBlocks(file_issues) ==
  IF file_issues = <<>> THEN <<>>
  ELSE IssueBlock(Head(file_issues)) \o IssueBlocks(Tail(file_issues))

RECURSIVE FileBlocks(_, _)
FileBlocks(issues, fileseq) ==
  IF fileseq = <<>> THEN <<>>
  ELSE LET file == Head(fileseq)
           OfFile(issue) == Get(issue, "file") = file
       IN  << << "file", file >>, << "rule-line" >> >>
           \o IssueBlocks(SelectSeq(issues, OfFile))
           \o FileBlocks(issues, Tail(fileseq))

\* format_output(issues, 'text'): the list `output` that is joined by "\n"
FormatText(issues) ==
  IF issues = <<>> THEN << << "success" >> >>
  ELSE << << "header", Len(issues) >> >>
       \o FileBlocks(issues, FilesInOrder(issues, <<>>))
       \o << << "rule-line" >>,
             << "summary", Len(SelectSeq(issues, IsError)),
                Len(SelectSeq(issues, IsWarning)) >> >>

FormatOutput(issues, format) ==
  IF format = "json" THEN FormatJson(issues) ELSE FormatText(issues)

\* ------------------------------------------------------------------------
\* Command-line arguments and the file system the run reads
\* ------------------------------------------------------------------------
\* an argument: its text, Path(arg).suffix and arg.startswith('--')
File(name, suffix) == [name |-> name, suffix |-> suffix, dashes |-> FALSE]

Flag(name) == [name |-> name, suffix |-> "", dashes |-> TRUE]

AHtml == File("a.html", ".html")

WHtml == File("w.html", ".html")

OkHtm == File("ok.htm", ".htm")

CTsx == File("c.tsx", ".tsx")

SCss == File("s.css", ".css")

BadCss == File("bad.css", ".css")

NTxt == File("n.txt", ".txt")

MissingHtml == File("missing.html", ".html")

SrcDir == File("src", "")

LogoPng == File("logo.png", ".png")

JsonFlag == Flag("--json")

Args ==
  { AHtml, WHtml, OkHtm, CTsx, SCss, BadCss, NTxt, MissingHtml, SrcDir,
    LogoPng, JsonFlag }

\* Path(filepath).exists()
Exists(arg) == arg # MissingHtml

\* what path.read_text(encoding='utf-8') meets: text, a directory
\* (IsADirectoryError) or bytes that are not UTF-8 (UnicodeDecodeError)
Kind(arg) ==
  CASE arg = SrcDir -> "dir"
    [] arg = LogoPng -> "binary"
    [] OTHER -> "text"

\* the text of each readable file
Content(arg) ==
  CASE arg = AHtml ->
         << Lit("<html"), Lit(">"), NL,
            SP, Lit("<img"), Attr("src=", "dq", "x.png"), Lit("/>"), SP, NL,
            Lit("<button"), Num("tabindex=", "dq", 3), Lit(">"), SP,
            Lit("</button>"), NL,
            Lit("<DIV"), Attr("onclick=", "dq", "go()"), Lit(">"), Lit("</div>") >>
    [] arg = WHtml ->
         << Lit("<html"), Attr("lang=", "dq", "en"), Lit(">"), NL,
            SP, Lit("<a"), Num("tabindex=", "sq", 2), Lit(">") >>
    [] arg = OkHtm ->
         << Lit("<HTML"), Attr("LANG=", "dq", "en"), Lit(">"), NL,
            Lit("<img"), Attr("alt=", "dq", "logo"), Lit(">"), NL >>
    [] arg = CTsx ->
         << Lit("<img"), Attr("src=", "br", "logo"), Lit("/>"), NL,
            Lit("<div"), Attr("onClick=", "br", "fn"),
            Attr("role=", "dq", "button"), Lit(">"), NL,
            SP, Lit("<label"), Lit(">"), Lit("Name"), Lit("</label>"),
            Lit("autoFocus"), Num("tabIndex=", "br", 1), NL,
            Lit("<span"), Attr("onClick=", "br", "fn"),
            Attr("aria-expanded=", "dq", "yes"), Lit(">") >>
    [] arg = SCss ->
         << Lit(".btn"), Lit(":focus"), Lit("{"), NL,
            SP, Lit("outline:"), Lit("none"), Lit(";"),
            Hex("color:", << 15, 15, 15 >>), Lit(";"),
            Hex("background:", << 14, 14, 14 >>), NL,
            Hex("background-color:", << 0, 0, 0, 1, 0, 2 >>) >>
    [] arg = BadCss ->
         << Hex("color:", << 10, 11, 12, 13 >>), Lit(";"),
            Hex("background:", << 1, 2, 3 >>) >>
    [] arg = NTxt ->
         << Lit("<img"), Lit(">"), NL, Lit("<html"), Lit(">") >>
    [] OTHER -> <<>>

HtmlSuffixes == { ".html", ".htm" }

ReactSuffixes == { ".tsx", ".jsx", ".ts", ".js" }

CssSuffixes == { ".css" }

\* ------------------------------------------------------------------------
\* The run of main
\* ------------------------------------------------------------------------
VARIABLES
  argv,         \* sys.argv[1:]
  pc,           \* position of main: start, loop, scan, report, exit, crashed
  files,        \* main's list of file arguments
  format_json,  \* '--json' in sys.argv
  idx,          \* position in files of the for loop
  self_issues,  \* checker.issues
  lines,        \* check_file's split content
  lineNo,       \* the evaluator's line counter i
  all_issues,   \* main's accumulated issue list
  returned,     \* every value check_file has returned, with its path
  stderr,       \* what was written to standard error
  stdout,       \* what was printed
  exit_code     \* the process exit code, -1 while running

vars ==
  << argv, pc, files, format_json, idx, self_issues, lines, lineNo,
     all_issues, returned, stderr, stdout, exit_code >>

ArgLists == UNION { [1..n -> Args] : n \in 0..MaxArgs }

IsFileArg(arg) == ~arg.dashes

\* files = [arg for arg in sys.argv[1:] if not arg.startswith('--')]
FileArgs(args) == SelectSeq(args, IsFileArg)

\* self.issues = [], mutated: the list of the previous scan is kept
KeepIssues(old) == old

\* self.issues = []
ResetIssues(old) == <<>>

\* all_issues.extend(issues), mutated: the new issues are put in front
ExtendInFront(all, issues) == issues \o all

\* all_issues.extend(issues), mutated: the list is replaced
ExtendReplacing(all, issues) == issues

\* all_issues.extend(issues)
Extend(all, issues) == all \o issues

\* the exit status, mutated: warnings count as errors
ExitCodeAnyIssue(issues) == IF Len(issues) > 0 THEN 1 ELSE 0

\* errors = sum(...); sys.exit(1 if errors > 0 else 0)
ExitCode(issues) == IF Len(SelectSeq(issues, IsError)) > 0 THEN 1 ELSE 0

Init ==
  /\ argv \in ArgLists
  /\ pc = "start"
  /\ files = <<>>
  /\ format_json = FALSE
  /\ idx = 0
  /\ self_issues = <<>>
  /\ lines = <<>>
  /\ lineNo = 0
  /\ all_issues = <<>>
  /\ returned = <<>>
  /\ stderr = <<>>
  /\ stdout = <<>>
  /\ exit_code = 0 - 1

\* main: len(sys.argv) < 2, print the usage and sys.exit(1)
Usage ==
  /\ pc = "start"
  /\ Len(argv) + 1 < 2
  /\ stdout' = Append(stdout, << << "usage" >> >>)
  /\ exit_code' = 1
  /\ pc' = "exit"
  /\ UNCHANGED << argv, files, format_json, idx, self_issues, lines, lineNo,
                  all_issues, returned, stderr >>

\* main: parse the arguments, create the checker and the empty result list
Start ==
  /\ pc = "start"
  /\ ~(Len(argv) + 1 < 2)
  /\ files' = FileArgs(argv)
  /\ format_json' = (\E k \in 1..Len(argv) : argv[k].name = "--json")
  /\ self_issues' = <<>>
  /\ all_issues' = <<>>
  /\ idx' = 1
  /\ pc' = "loop"
  /\ UNCHANGED << argv, lines, lineNo, returned, stderr, stdout, exit_code >>

\* check_file on a path that does not exist, and main's extend of its result
CheckFileNotFound ==
  /\ pc = "loop"
  /\ idx <= Len(files)
  /\ ~Exists(files[idx])
  /\ self_issues' = ResetIssues(self_issues)
  /\ stderr' = Append(stderr, << "Error: File not found", files[idx].name >>)
  /\ returned' = Append(returned, [path |-> files[idx].name, issues |-> <<>>])
  /\ all_issues' = Extend(all_issues, <<>>)
  /\ idx' = idx + 1
  /\ UNCHANGED << argv, pc, files, format_json, lines, lineNo, stdout, exit_code >>

\* check_file up to the dispatch: reset, exists, read_text, split
CheckFileRead ==
  /\ pc = "loop"
  /\ idx <= Len(files)
  /\ Exists(files[idx])
  /\ Kind(files[idx]) = "text"
  /\ self_issues' = ResetIssues(self_issues)
  /\ lines' = Split(Content(files[idx]))
  /\ lineNo' = 1
  /\ pc' = "scan"
  /\ UNCHANGED << argv, files, format_json, idx, all_issues, returned, stderr,
                  stdout, exit_code >>

\* check_file: read_text raises and nothing catches it; the interpreter
\* prints the traceback and exits with status 1
CheckFileReadError ==
  /\ pc = "loop"
  /\ idx <= Len(files)
  /\ Exists(files[idx])
  /\ Kind(files[idx]) # "text"
  /\ self_issues' = ResetIssues(self_issues)
  /\ stderr' = Append(stderr,
                      << "Traceback",
                         IF Kind(files[idx]) = "dir" THEN "IsADirectoryError"
                         ELSE "UnicodeDecodeError" >>)
  /\ exit_code' = 1
  /\ pc' = "crashed"
  /\ UNCHANGED << argv, files, format_json, idx, lines, lineNo, all_issues,
                  returned, stdout >>

\* one iteration of _check_html
ScanHtmlLine ==
  /\ pc = "scan"
  /\ files[idx].suffix \in HtmlSuffixes
  /\ lineNo <= Len(lines)
  /\ self_issues' = CheckHtmlLine(self_issues, lines, lineNo, files[idx].name)
  /\ lineNo' = lineNo + 1
  /\ UNCHANGED << argv, pc, files, format_json, idx, lines, all_issues,
                  returned, stderr, stdout, exit_code >>

\* one iteration of _check_react
ScanReactLine ==
  /\ pc = "scan"
  /\ files[idx].suffix \notin HtmlSuffixes
  /\ files[idx].suffix \in ReactSuffixes
  /\ lineNo <= Len(lines)
  /\ self_issues' = CheckReactLine(self_issues, lines, lineNo, files[idx].name)
  /\ lineNo' = lineNo + 1
  /\ UNCHANGED << argv, pc, files, format_json, idx, lines, all_issues,
                  returned, stderr, stdout, exit_code >>

\* one iteration of _check_css
ScanCssLine ==
  /\ pc = "scan"
  /\ files[idx].suffix \notin HtmlSuffixes \cup ReactSuffixes
  /\ files[idx].suffix \in CssSuffixes
  /\ lineNo <= Len(lines)
  /\ ~CssLineRaises(lines, lineNo)
  /\ self_issues' = CheckCssLine(self_issues, lines, lineNo, files[idx].name)
  /\ lineNo' = lineNo + 1
  /\ UNCHANGED << argv, pc, files, format_json, idx, lines, all_issues,
                  returned, stderr, stdout, exit_code >>

\* one iteration of _check_css in which _similar_lightness raises ValueError;
\* nothing catches it, the interpreter prints the traceback and exits with 1
ScanCssLineError ==
  /\ pc = "scan"
  /\ files[idx].suffix \notin HtmlSuffixes \cup ReactSuffixes
  /\ files[idx].suffix \in CssSuffixes
  /\ lineNo <= Len(lines)
  /\ CssLineRaises(lines, lineNo)
  /\ self_issues' = CheckCssOutline(self_issues, lines, lineNo, files[idx].name)
  /\ stderr' = Append(stderr, << "Traceback", "ValueError" >>)
  /\ exit_code' = 1
  /\ pc' = "crashed"
  /\ UNCHANGED << argv, files, format_json, idx, lines, lineNo, all_issues,
                  returned, stdout >>

\* check_file returns self.issues (the evaluator is through, or no evaluator
\* is chosen for the suffix) and main extends all_issues with it
CheckFileReturn ==
  /\ pc = "scan"
  /\ \/ files[idx].suffix \notin HtmlSuffixes \cup ReactSuffixes \cup CssSuffixes
     \/ lineNo > Len(lines)
  /\ returned' = Append(returned,
                        [path |-> files[idx].name, issues |-> self_issues])
  /\ all_issues' = Extend(all_issues, self_issues)
  /\ idx' = idx + 1
  /\ pc' = "loop"
  /\ UNCHANGED << argv, files, format_json, self_issues, lines, lineNo, stderr,
                  stdout, exit_code >>

\* main: print(format_output(all_issues, output_format))
Report ==
  /\ pc = "loop"
  /\ idx > Len(files)
  /\ stdout' = Append(stdout,
                      FormatOutput(all_issues,
                                   IF format_json THEN "json" ELSE "text"))
  /\ pc' = "report"
  /\ UNCHANGED << argv, files, format_json, idx, self_issues, lines, lineNo,
                  all_issues, returned, stderr, exit_code >>

\* main: count the errors and sys.exit
Exit ==
  /\ pc = "report"
  /\ exit_code' = ExitCode(all_issues)
  /\ pc' = "exit"
  /\ UNCHANGED << argv, files, format_json, idx, self_issues, lines, lineNo,
                  all_issues, returned, stderr, stdout >>

Next ==
  \/ Usage
  \/ Start
  \/ CheckFileNotFound
  \/ CheckFileRead
  \/ CheckFileReadError
  \/ ScanHtmlLine
  \/ ScanReactLine
  \/ ScanCssLine
  \/ ScanCssLineError
  \/ CheckFileReturn
  \/ Report
  \/ Exit

Spec == Init /\ [][Next]_vars

TypeOK ==
  /\ pc \in { "start", "loop", "scan", "report", "exit", "crashed" }
  /\ exit_code \in { 0 - 1, 0, 1 }
  /\ idx \in 0..(MaxArgs + 1)

\* ------------------------------------------------------------------------
\* Runs over one file whose content is drawn
\* ------------------------------------------------------------------------
\* '\n'.join(ls): the content that splits into the lines ls
RECURSIVE JoinLines(_)
JoinLines(ls) ==
  IF Len(ls) = 1 THEN ls[1] ELSE ls[1] \o << NL >> \o JoinLines(Tail(ls))

\* the contents of at most n lines, each line drawn from lineSet
Contents(lineSet, n) ==
  { JoinLines(ls) : ls \in UNION { [1..m -> lineSet] : m \in 1..n } }

\* check_file up to the dispatch, on an existing text file whose content is
\* any of contents
CheckFileReadDrawn(arg, contents) ==
  /\ pc = "loop"
  /\ idx <= Len(files)
  /\ files[idx] = arg
  /\ Exists(arg)
  /\ \E content \in contents : lines' = Split(content)
  /\ self_issues' = ResetIssues(self_issues)
  /\ lineNo' = 1
  /\ pc' = "scan"
  /\ UNCHANGED << argv, files, format_json, idx, all_issues, returned, stderr,
                  stdout, exit_code >>

\* the state before main runs, with the given argument lists
InitWith(argLists) ==
  /\ argv \in argLists
  /\ pc = "start"
  /\ files = <<>>
  /\ format_json = FALSE
  /\ idx = 0
  /\ self_issues = <<>>
  /\ lines = <<>>
  /\ lineNo = 0
  /\ all_issues = <<>>
  /\ returned = <<>>
  /\ stderr = <<>>
  /\ stdout = <<>>
  /\ exit_code = 0 - 1

\* a markup file of drawn content
VHtml == File("v.html", ".html")

\* the lines a drawn markup file is made of: an opening tag or a doctype,
\* with or without an attribute, and the empty line
HtmlLineSet ==
  { << head >> \o attr \o << Lit(">") >> :
      head \in { Lit("<html"), Lit("<HTML"), Lit("<!DOCTYPE"), Lit("<body") },
      attr \in { <<>>, << Attr("lang=", "dq", "en") >>,
                 << Attr("LANG=", "sq", "en") >>,
                 << Attr("hreflang=", "dq", "en") >>,
                 << Attr("class=", "dq", "no-js") >> } }
  \cup { <<>> }

InitHtml == InitWith({ << VHtml >> })

CheckFileReadHtml ==
  CheckFileReadDrawn(VHtml, Contents(HtmlLineSet, MaxHtmlLines))

NextHtml ==
  \/ Start
  \/ CheckFileReadHtml
  \/ ScanHtmlLine
  \/ CheckFileReturn
  \/ Report
  \/ Exit

SpecHtml == InitHtml /\ [][NextHtml]_vars

\* a stylesheet of drawn content
VCss == File("v.css", ".css")

\* the hex colours of a drawn stylesheet: 3, 4, 5 and 6 digits, light, dark
\* and in between, with lightness at and next to 180 and 75
CssColours ==
  { << 15, 15, 15 >>, << 11, 11, 11 >>, << 0, 0, 0 >>, << 4, 4, 4 >>,
    << 8, 8, 8 >>,
    << 11, 4, 11, 4, 11, 4 >>, << 11, 5, 11, 4, 11, 4 >>,
    << 11, 5, 11, 5, 11, 4 >>,
    << 4, 11, 4, 11, 4, 11 >>, << 4, 11, 4, 10, 4, 10 >>,
    << 10, 11, 12, 13 >>, << 15, 15, 15, 15, 15 >> }

\* the lines a drawn stylesheet is made of: one declaration alone, or a
\* colour declaration and a background declaration in either order
CssLineSet ==
  { << Hex(prop, c) >> :
      prop \in { "color:", "background:", "background-color:", "border-color:" },
      c \in CssColours }
  \cup { << SP, Hex("color:", c1), Lit(";"), Hex("background:", c2) >> :
           c1 \in CssColours, c2 \in CssColours }
  \cup { << Hex("background-color:", c2), Lit(";"), Hex("COLOR:", c1) >> :
           c1 \in { << 15, 15, 15 >>, << 0, 0, 0 >> },
           c2 \in { << 15, 15, 15 >>, << 0, 0, 0 >>, << 8, 8, 8 >> } }

InitCss == InitWith({ << VCss >> })

CheckFileReadCss ==
  CheckFileReadDrawn(VCss, Contents(CssLineSet, MaxCssLines))

NextCss ==
  \/ Start
  \/ CheckFileReadCss
  \/ ScanCssLine
  \/ ScanCssLineError
  \/ CheckFileReturn
  \/ Report
  \/ Exit

SpecCss == InitCss /\ [][NextCss]_vars

\* ------------------------------------------------------------------------
\* Vocabulary of the properties
\* ------------------------------------------------------------------------
\* the rules of each evaluator, in the order its loop body checks them
HtmlRuleOrder ==
  << "img-alt", "button-name", "html-lang", "click-events-have-key-events",
     "no-positive-tabindex" >>

ReactRuleOrder ==
  << "img-alt", "click-events-have-key-events", "interactive-supports-focus",
     "aria-expanded-invalid", "label-has-associated-control", "no-autofocus",
     "no-positive-tabindex" >>

CssRuleOrder == << "focus-visible", "color-contrast" >>

RuleOrder(suffix) ==
  IF suffix \in HtmlSuffixes THEN HtmlRuleOrder
  ELSE IF suffix \in ReactSuffixes THEN ReactRuleOrder
  ELSE IF suffix \in CssSuffixes THEN CssRuleOrder
  ELSE <<>>

\* position of x in seq, 0 when absent
Pos(seq, x) ==
  IF \E k \in 1..Len(seq) : seq[k] = x
  THEN CHOOSE k \in 1..Len(seq) : seq[k] = x
  ELSE 0

\* the evaluator loop of check_file run from line i to the end
RECURSIVE ScanFrom(_, _, _, _)
ScanFrom(arg, ls, i, acc) ==
  IF i > Len(ls) THEN acc
  ELSE ScanFrom(arg, ls, i + 1,
         IF arg.suffix \in HtmlSuffixes THEN CheckHtmlLine(acc, ls, i, arg.name)
         ELSE IF arg.suffix \in ReactSuffixes THEN CheckReactLine(acc, ls, i, arg.name)
         ELSE IF arg.suffix \in CssSuffixes THEN CheckCssLine(acc, ls, i, arg.name)
         ELSE acc)

\* what check_file returns for the path when it is scanned on its own
ScanAlone(arg) ==
  IF ~Exists(arg) THEN <<>> ELSE ScanFrom(arg, Split(Content(arg)), 1, <<>>)

\* the path is missing or cannot be read as text
Unreadable(arg) == ~Exists(arg) \/ Kind(arg) # "text"

\* the k-th file argument has been handled: check_file returned or raised
Handled(k) == k < idx \/ (k = idx /\ pc = "crashed")

\* the run stopped inside check_file of the k-th file argument
RaisedAt(k) == pc = "crashed" /\ idx = k

\* something about the path was written to standard error
ReportedMissing(arg) ==
  \E m \in 1..Len(stderr) : stderr[m] = << "Error: File not found", arg.name >>

HasError(issues) == \E k \in 1..Len(issues) : IsError(issues[k])

RECURSIVE ConcatIssues(_)
ConcatIssues(rets) ==
  IF rets = <<>> THEN <<>> ELSE Head(rets).issues \o ConcatIssues(Tail(rets))

NoDuplicates(issues) ==
  \A a, b \in 1..Len(issues) : a # b => issues[a] # issues[b]

DistinctPaths(fs) == \A a, b \in 1..Len(fs) : a # b => fs[a] # fs[b]

Finished == pc \in { "report", "exit" }

\* ------------------------------------------------------------------------
\* C1
\* ------------------------------------------------------------------------
\* C1: a run of main over a non-empty file list that completes exits with
\* status 1 exactly when all_issues holds an issue of severity error, and
\* with 0 otherwise (no issue, or warnings only).
C1_ExitCodeIffError ==
  (pc = "exit" /\ files # <<>>) =>
     /\ exit_code \in { 0, 1 }
     /\ exit_code = 1 <=> HasError(all_issues)

\* a completed run whose issues are all warnings exits with 0
C1_Witness ==
  /\ pc = "exit"
  /\ files # <<>>
  /\ all_issues # <<>>
  /\ ~HasError(all_issues)
  /\ exit_code = 0

\* ------------------------------------------------------------------------
\* C2
\* ------------------------------------------------------------------------
\* C2: for every file argument that is missing or not readable as text,
\* check_file reports the failure on standard error and returns no issue,
\* the run does not stop there, and every file argument scanned afterwards
\* contributes what it contributes when scanned alone.
C2_UnreadableIsSkipped ==
  \A k \in 1..Len(files) :
     (Unreadable(files[k]) /\ Handled(k)) =>
        /\ ~RaisedAt(k)
        /\ returned[k].issues = <<>>
        /\ ReportedMissing(files[k])
        /\ \A m \in (k + 1)..Len(returned) :
              returned[m].issues = ScanAlone(files[m])

\* ------------------------------------------------------------------------
\* C3
\* ------------------------------------------------------------------------
\* C3: scanning has no fatal path: check_file never raises on a file that
\* is readable as text, whatever its content, so the only way the process
\* ends is main's exit after the report (or the usage exit).
C3_NoFatalScanPath ==
  \A k \in 1..Len(files) :
     (~Unreadable(files[k]) /\ Handled(k)) => ~RaisedAt(k)

\* ------------------------------------------------------------------------
\* C4
\* ------------------------------------------------------------------------
\* C4: whenever the invocation supplies no file (no argument at all, or
\* flags only), the exit code is 1.
C4_NoFilesExitsOne ==
  (exit_code # 0 - 1 /\ FileArgs(argv) = <<>>) => exit_code = 1

\* ------------------------------------------------------------------------
\* C5
\* ------------------------------------------------------------------------
\* C5: for every existing file, every issue check_file returns carries a
\* rule of the one evaluator its suffix selects; for a suffix that selects
\* no evaluator check_file returns the empty sequence and reports no error.
C5_DispatchBySuffix ==
  \A k \in 1..Len(files) :
     (Exists(files[k]) /\ Kind(files[k]) # "dir" /\ Handled(k)) =>
        /\ k <= Len(returned) =>
              \A m \in 1..Len(returned[k].issues) :
                 Pos(RuleOrder(files[k].suffix),
                     Get(returned[k].issues[m], "rule")) > 0
        /\ RuleOrder(files[k].suffix) = <<>> =>
              /\ ~RaisedAt(k)
              /\ returned[k].issues = <<>>
              /\ ~ReportedMissing(files[k])

\* ------------------------------------------------------------------------
\* C6
\* ------------------------------------------------------------------------
\* C6: all_issues is the concatenation, in file-argument order, of what the
\* scans of the file arguments returned; within one scan the line numbers
\* never decrease and issues of one line follow the evaluator's rule order.
C6_IssueOrder ==
  /\ all_issues = ConcatIssues(returned)
  /\ \A k \in 1..Len(returned) :
        LET out == returned[k].issues
            order == RuleOrder(files[k].suffix)
        IN  /\ returned[k].path = files[k].name
            /\ \A a \in 1..Len(out) : Get(out[a], "file") = files[k].name
            /\ \A a, b \in 1..Len(out) :
                  a < b =>
                     /\ Get(out[a], "line") <= Get(out[b], "line")
                     /\ Get(out[a], "line") = Get(out[b], "line") =>
                           Pos(order, Get(out[a], "rule"))
                              < Pos(order, Get(out[b], "rule"))

\* two file arguments have contributed issues, one of them two on one line
C6_Witness ==
  /\ Len(returned) >= 2
  /\ returned[1].issues # <<>>
  /\ returned[2].issues # <<>>
  /\ returned[1].path # returned[2].path
  /\ \E a, b \in 1..Len(returned[2].issues) :
        /\ a < b
        /\ Get(returned[2].issues[a], "line") = Get(returned[2].issues[b], "line")

\* ------------------------------------------------------------------------
\* C7
\* ------------------------------------------------------------------------
\* C7: two calls of check_file on the same path, on the one checker of the
\* run, return equal issue sequences whatever was scanned before or between.
C7_ScanIdempotent ==
  \A a, b \in 1..Len(returned) :
     returned[a].path = returned[b].path =>
        returned[a].issues = returned[b].issues

\* a file with issues was scanned, then another file, then the first again
C7_Witness ==
  /\ Len(returned) = 3
  /\ returned[1].path = returned[3].path
  /\ returned[2].path # returned[1].path
  /\ returned[1].issues # <<>>
  /\ returned[2].issues # <<>>

\* ------------------------------------------------------------------------
\* C8
\* ------------------------------------------------------------------------
\* C8: every step of the run leaves each issue already in all_issues in
\* place and unchanged: all_issues only ever grows at its end.
C8_AppendOnly ==
  [][ /\ Len(all_issues) <= Len(all_issues')
      /\ \A k \in 1..Len(all_issues) : all_issues'[k] = all_issues[k] ]_vars

\* a later file's scan has reset the checker's list and is adding issues
\* while all_issues holds the issues of an earlier file
C8_Witness ==
  /\ pc = "scan"
  /\ idx >= 2
  /\ all_issues # <<>>
  /\ self_issues # <<>>
  /\ self_issues # all_issues

\* ------------------------------------------------------------------------
\* C9
\* ------------------------------------------------------------------------
\* C9 as stated: the issue list a run emits never holds two entries that
\* are equal in all fields, for every list of file arguments.
C9_Deduplicated == Finished => NoDuplicates(all_issues)

\* C9 as amended: the issue list a run emits holds no two entries equal in
\* all fields when the file arguments are pairwise distinct paths.
C9_NoDuplicatesForDistinctPaths ==
  (Finished /\ DistinctPaths(files)) => NoDuplicates(all_issues)

\* a finished run over distinct paths, two of which contributed issues
C9_Witness ==
  /\ pc = "exit"
  /\ DistinctPaths(files)
  /\ Len(returned) >= 2
  /\ returned[1].issues # <<>>
  /\ returned[2].issues # <<>>
  /\ Len(all_issues) >= 4

\* ------------------------------------------------------------------------
\* C10
\* ------------------------------------------------------------------------
\* C10: the JSON rendering of a run with N accumulated issues is a list of
\* N entries in the order of all_issues; each entry has exactly the Issue
\* field names, the values of its issue, column 0 and the six other fields
\* populated.
C10_RecordRendering ==
  (Finished /\ format_json) =>
     LET out == stdout[Len(stdout)]
     IN  /\ Len(out) = Len(all_issues)
         /\ \A k \in 1..Len(out) :
               /\ DOMAIN out[k] = { IssueFields[m] : m \in 1..Len(IssueFields) }
               /\ \A m \in 1..Len(IssueFields) :
                     out[k][IssueFields[m]] = all_issues[k][m]
               /\ out[k]["column"] = 0
               /\ out[k]["file"] # ""
               /\ out[k]["line"] >= 1
               /\ out[k]["severity"] \in { "error", "warning" }
               /\ out[k]["rule"] # ""
               /\ out[k]["message"] # ""
               /\ out[k]["code_snippet"] # <<>>

\* a finished --json run that rendered errors and warnings
C10_Witness ==
  /\ pc = "exit"
  /\ format_json
  /\ Len(stdout[Len(stdout)]) >= 2
  /\ HasError(all_issues)
  /\ \E k \in 1..Len(all_issues) : IsWarning(all_issues[k])

\* ------------------------------------------------------------------------
\* C11
\* ------------------------------------------------------------------------
\* the text report that was printed
TextReport == stdout[Len(stdout)]

\* main has printed format_output(all_issues, 'text')
TextRendered == Finished /\ idx > 0 /\ ~format_json

\* the files of the block headers of a text report, in the order printed
BlockFiles(out) ==
  LET IsFileLine(entry) == entry[1] = "file"
      heads == SelectSeq(out, IsFileLine)
  IN  [k \in 1..Len(heads) |-> heads[k][2]]

\* the issues a text report lists, in the order printed, each with the file
\* of the block it is printed in
RECURSIVE ListedFrom(_, _, _)
ListedFrom(out, k, file) ==
  IF k > Len(out) THEN <<>>
  ELSE IF out[k][1] = "file" THEN ListedFrom(out, k + 1, out[k][2])
  ELSE IF out[k][1] = "issue"
       THEN << [file |-> file, line |-> out[k][3], message |-> out[k][4],
                rule |-> out[k + 1][2], code |-> out[k + 2][2]] >>
            \o ListedFrom(out, k + 3, file)
  ELSE ListedFrom(out, k + 1, file)

\* what the report has to print of an issue
Shown(issue) ==
  [file |-> Get(issue, "file"), line |-> Get(issue, "line"),
   message |-> Get(issue, "message"), rule |-> Get(issue, "rule"),
   code |-> Get(issue, "code_snippet")]

\* position of the first issue of the file in the issue sequence
FirstOccurrence(issues, file) ==
  First({ k \in 1..Len(issues) : Get(issues[k], "file") = file })

\* C11: the text rendering of the empty issue sequence is the one success
\* line; otherwise it has one block per distinct file, the blocks in the
\* order of each file's first occurrence, every issue listed exactly once,
\* in its file's block and in sequence order, a header count equal to the
\* number of issues, and error and warning totals that add up to it.
C11_TextRendering ==
  TextRendered =>
     LET out == TextReport
         heads == BlockFiles(out)
         listed == ListedFrom(out, 1, "")
     IN  IF all_issues = <<>> THEN out = << << "success" >> >>
         ELSE /\ out[1] = << "header", Len(all_issues) >>
              /\ \A a, b \in 1..Len(heads) : a # b => heads[a] # heads[b]
              /\ \A k \in 1..Len(all_issues) :
                    \E a \in 1..Len(heads) : heads[a] = Get(all_issues[k], "file")
              /\ \A a, b \in 1..Len(heads) :
                    a < b =>
                       /\ FirstOccurrence(all_issues, heads[a]) > 0
                       /\ FirstOccurrence(all_issues, heads[a])
                             < FirstOccurrence(all_issues, heads[b])
              /\ Len(listed) = Len(all_issues)
              /\ \A a \in 1..Len(heads) :
                    LET InBlock(entry) == entry.file = heads[a]
                        OfFile(issue) == Get(issue, "file") = heads[a]
                        block == SelectSeq(listed, InBlock)
                        mine == SelectSeq(all_issues, OfFile)
                    IN  /\ Len(block) = Len(mine)
                        /\ \A k \in 1..Len(block) : block[k] = Shown(mine[k])
              /\ LET summary == out[Len(out)]
                 IN  /\ summary[1] = "summary"
                     /\ summary[2] = Cardinality({ k \in 1..Len(all_issues) :
                                                     IsError(all_issues[k]) })
                     /\ summary[3] = Cardinality({ k \in 1..Len(all_issues) :
                                                     IsWarning(all_issues[k]) })
                     /\ summary[2] + summary[3] = Len(all_issues)

\* a text report of a run in which a file's issues are not contiguous: the
\* same file was given twice with another file between
C11_Witness ==
  /\ pc = "exit"
  /\ ~format_json
  /\ \E a, b, c \in 1..Len(all_issues) :
        /\ a < b /\ b < c
        /\ Get(all_issues[a], "file") = Get(all_issues[c], "file")
        /\ Get(all_issues[a], "file") # Get(all_issues[b], "file")
  /\ Len(BlockFiles(TextReport)) = 2

\* ------------------------------------------------------------------------
\* C12
\* ------------------------------------------------------------------------
\* the scan of the drawn file has returned
Scanned == Len(returned) = 1

\* the returned issues hold an error of the rule for line i
Flagged(rule, severity, i) ==
  \E k \in 1..Len(returned[1].issues) :
     /\ Get(returned[1].issues[k], "rule") = rule
     /\ Get(returned[1].issues[k], "severity") = severity
     /\ Get(returned[1].issues[k], "line") = i

\* the line holds an opening html tag, in either letter case
HasHtmlTag(line) == \E k \in 1..Len(line) : line[k].s \in { "<html", "<HTML" }

\* the line holds a lang attribute, in either letter case
HasLangAttr(line) == \E k \in 1..Len(line) : line[k].s \in { "lang=", "LANG=" }

\* the line holds the text lang=, in either letter case, be it the lang
\* attribute or the end of another attribute's name
HasLangText(line) ==
  \E k \in 1..Len(line) : line[k].s \in { "lang=", "LANG=", "hreflang=" }

\* C12 as stated: html-lang is issued for a line exactly when the line
\* lacks a lang attribute and is the first line or holds an opening <html
\* tag; so a first line without a lang attribute is flagged.
C12_HtmlLangFirstLineOrTag ==
  Scanned =>
     \A i \in 1..Len(lines) :
        Flagged("html-lang", "error", i)
           <=> (~HasLangAttr(lines[i]) /\ (i = 1 \/ HasHtmlTag(lines[i])))

\* C12 as amended: html-lang is issued for a line exactly when the line
\* holds an opening <html tag and does not hold the text lang=, on the
\* first line as on any other; a first line without <html is not flagged.
C12_HtmlLangOnTagOnly ==
  Scanned =>
     \A i \in 1..Len(lines) :
        Flagged("html-lang", "error", i)
           <=> (HasHtmlTag(lines[i]) /\ ~HasLangText(lines[i]))

\* a first line without lang and without <html that is not flagged, then
\* an upper-case <HTML tag without lang that is
C12_Witness ==
  /\ Scanned
  /\ Len(lines) = 2
  /\ ~HasHtmlTag(lines[1]) /\ ~HasLangText(lines[1]) /\ lines[1] # <<>>
  /\ ~Flagged("html-lang", "error", 1)
  /\ lines[2] = << Lit("<HTML"), Lit(">") >>
  /\ Flagged("html-lang", "error", 2)

\* ------------------------------------------------------------------------
\* C13
\* ------------------------------------------------------------------------
\* the evaluator is through with line i: it went on, or it raised there
LineDone(i) == i < lineNo \/ (i = lineNo /\ pc = "crashed")

\* the evaluator raised on line i
LineRaised(i) == i = lineNo /\ pc = "crashed"

\* the checker's list holds a color-contrast warning for line i
ContrastFlagged(i) ==
  \E k \in 1..Len(self_issues) :
     /\ Get(self_issues[k], "rule") = "color-contrast"
     /\ Get(self_issues[k], "severity") = "warning"
     /\ Get(self_issues[k], "line") = i

\* a declaration of the color property with a hex colour
IsColorDecl(t) == t.s \in { "color:", "COLOR:" } /\ Len(t.h) >= 3

\* a declaration of background or background-color with a hex colour
IsBackgroundDecl(t) ==
  t.s \in { "background:", "background-color:" } /\ Len(t.h) >= 3

\* C13: color-contrast is issued for a line only if the line holds a hex
\* color declaration and a separate hex background or background-color
\* declaration whose colours the lightness heuristic finds similar; a line
\* with only a background-color or only a color declaration never has it.
C13_ContrastNeedsBothDeclarations ==
  \A i \in 1..Len(lines) :
     (LineDone(i) /\ ContrastFlagged(i)) =>
        \E a, b \in 1..Len(lines[i]) :
           /\ a # b
           /\ IsColorDecl(lines[i][a])
           /\ IsBackgroundDecl(lines[i][b])
           /\ SimilarLightness(Slice(lines[i][a].h, 0, 6),
                               Slice(lines[i][b].h, 0, 6))

\* ------------------------------------------------------------------------
\* C14
\* ------------------------------------------------------------------------
\* the pair of colours _check_css hands to _similar_lightness for the line,
\* or <<>> when it does not call it
CapturedPair(line) ==
  LET line_lower == Lower(Strip(line))
  IN  IF ColorMatch(line_lower).matched /\ BgMatch(line_lower).matched
      THEN << ColorMatch(line_lower).group, BgMatch(line_lower).group >>
      ELSE <<>>

\* the three channels of a colour of 3 or 6 digits, each in 0..255
Channels(c) ==
  IF Len(c) = 3 THEN << 17 * c[1], 17 * c[2], 17 * c[3] >>
  ELSE << 16 * c[1] + c[2], 16 * c[3] + c[4], 16 * c[5] + c[6] >>

\* the truncated integer mean of the three channels
MeanLightness(c) == (Channels(c)[1] + Channels(c)[2] + Channels(c)[3]) \div 3

BothLightOrBothDark(c1, c2) ==
  \/ MeanLightness(c1) > 180 /\ MeanLightness(c2) > 180
  \/ MeanLightness(c1) < 75 /\ MeanLightness(c2) < 75

\* C14: for every pair of colours the stylesheet evaluator captures,
\* _similar_lightness returns, and returns true exactly when the truncated
\* means of the three 0..255 channels (a 3-digit colour expanded by doubling
\* each digit) are both above 180 or both below 75.
C14_SimilarLightness ==
  \A i \in 1..Len(lines) :
     (LineDone(i) /\ CapturedPair(lines[i]) # <<>>) =>
        LET c1 == CapturedPair(lines[i])[1]
            c2 == CapturedPair(lines[i])[2]
        IN  /\ ~LineRaised(i)
            /\ (Len(c1) \in { 3, 6 } /\ Len(c2) \in { 3, 6 }) =>
                  (ContrastFlagged(i) <=> BothLightOrBothDark(c1, c2))

====
